---- MODULE Spec2Model ----
(***************************************************************************)
(* Model of the atomic-weight calculators of ME397-HW1:                    *)
(*   isotopes_db.py                        Isotope, _SEED, load_csv,       *)
(*                                         get_database, atomic_weight     *)
(*   atomic_weight_from_weight_percent.py  the weight-percent calculator   *)
(*                                         and its two module-level calls  *)
(*   atomic_weight.py                      main: get_database, then        *)
(*                                         atomic_weight                   *)
(*                                                                         *)
(* Numbers.  Python floats are modelled by exact signed rationals          *)
(* [neg, n, d] whose numerator and denominator are unbounded naturals,     *)
(* held as little-endian sequences of base-10000 limbs (TLC's integers are *)
(* 32 bits wide, the seed masses have 12 significant digits).  Rounding of *)
(* IEEE doubles is therefore NOT modelled: every statement checked here is *)
(* a statement about the code in exact arithmetic.                         *)
(*                                                                         *)
(* Strings are sequences of one-character strings, so that strip, lower,   *)
(* upper and capitalize are computed character by character.               *)
(***************************************************************************)
EXTENDS Integers, Sequences, FiniteSets, TLC

VARIABLES pc, csvFile, symbolArg, dbArg, masses_u, weight_percents, result

vars == <<pc, csvFile, symbolArg, dbArg, masses_u, weight_percents, result>>

----------------------------------------------------------------------------
(* Unbounded naturals: <<>> is 0, limbs are in 0..9999, the last limb of a *)
(* non-zero number is non-zero.                                            *)

RestOf(a) == IF a = <<>> THEN <<>> ELSE Tail(a)

LimbOf(a) == IF a = <<>> THEN 0 ELSE Head(a)

RECURSIVE BigNorm(_)
BigNorm(a) ==
    IF a = <<>> THEN <<>>
    ELSE IF a[Len(a)] = 0 THEN BigNorm(SubSeq(a, 1, Len(a) - 1))
    ELSE a

RECURSIVE BigFromInt(_)
BigFromInt(k) ==
    IF k = 0 THEN <<>> ELSE <<k % 10000>> \o BigFromInt(k \div 10000)

RECURSIVE BigAddC(_, _, _)
BigAddC(a, b, c) ==
    IF a = <<>> /\ b = <<>>
    THEN (IF c = 0 THEN <<>> ELSE <<c>>)
    ELSE LET s == LimbOf(a) + LimbOf(b) + c
         IN  <<s % 10000>> \o BigAddC(RestOf(a), RestOf(b), s \div 10000)

BigAdd(a, b) == BigAddC(a, b, 0)

(* a - b for a >= b, before normalisation; w is the borrow. *)
RECURSIVE BigSubB(_, _, _)
BigSubB(a, b, w) ==
    IF a = <<>> THEN <<>>
    ELSE LET s == LimbOf(a) - LimbOf(b) - w
         IN  IF s < 0
             THEN <<s + 10000>> \o BigSubB(RestOf(a), RestOf(b), 1)
             ELSE <<s>> \o BigSubB(RestOf(a), RestOf(b), 0)

BigSub(a, b) == BigNorm(BigSubB(a, b, 0))

(* a * k for one limb k in 0..9999; c is the carry. *)
RECURSIVE BigMulLimbC(_, _, _)
BigMulLimbC(a, k, c) ==
    IF a = <<>> THEN (IF c = 0 THEN <<>> ELSE <<c>>)
    ELSE LET s == Head(a) * k + c
         IN  <<s % 10000>> \o BigMulLimbC(Tail(a), k, s \div 10000)

BigMulLimb(a, k) == IF k = 0 THEN <<>> ELSE BigMulLimbC(a, k, 0)

RECURSIVE BigMul(_, _)
BigMul(a, b) ==
    IF a = <<>> \/ b = <<>> THEN <<>>
    ELSE LET rest == BigMul(a, Tail(b))
         IN  BigAdd(BigMulLimb(a, Head(b)),
                    IF rest = <<>> THEN <<>> ELSE <<0>> \o rest)

(* -1, 0, 1 as a < b, a = b, a > b. *)
RECURSIVE BigCmp(_, _)
BigCmp(a, b) ==
    IF Len(a) # Len(b) THEN (IF Len(a) < Len(b) THEN -1 ELSE 1)
    ELSE IF a = <<>> THEN 0
    ELSE LET n == Len(a)
         IN  IF a[n] # b[n] THEN (IF a[n] < b[n] THEN -1 ELSE 1)
             ELSE BigCmp(SubSeq(a, 1, n - 1), SubSeq(b, 1, n - 1))

----------------------------------------------------------------------------
(* Signed rationals, not reduced: the value of [neg, n, d] is +-n/d, d > 0. *)
(* Two records may differ and denote the same number: compare with RatCmp.  *)

(* Common factors of 10000 are cancelled, which keeps decimal fractions     *)
(* short; zero is always 0/1.                                               *)
RECURSIVE Cancel(_, _)
Cancel(n, d) ==
    IF n = <<>> THEN <<n, <<1>>>>
    ELSE IF Head(n) = 0 /\ Head(d) = 0 THEN Cancel(Tail(n), Tail(d))
    ELSE <<n, d>>

Rat(neg, n, d) ==
    LET c == Cancel(n, d)
    IN  [neg |-> neg /\ n # <<>>, n |-> c[1], d |-> c[2]]

(* k/den for 32-bit integers k and den > 0. *)
Q(k, den) ==
    Rat(k < 0, BigFromInt(IF k < 0 THEN -k ELSE k), BigFromInt(den))

(* The decimal literal w.f1f2f3, each f a group of four decimal digits. *)
Dec(w, f1, f2, f3) == Rat(FALSE, BigNorm(<<f3, f2, f1, w>>), <<0, 0, 0, 1>>)

RatZero == Q(0, 1)

RatIsZero(x) == x.n = <<>>

RatNeg(x) == Rat(~x.neg, x.n, x.d)

RatAbs(x) == Rat(FALSE, x.n, x.d)

RatAdd(x, y) ==
    LET same == x.d = y.d
        a == IF same THEN x.n ELSE BigMul(x.n, y.d)
        b == IF same THEN y.n ELSE BigMul(y.n, x.d)
        d == IF same THEN x.d ELSE BigMul(x.d, y.d)
    IN  IF x.neg = y.neg THEN Rat(x.neg, BigAdd(a, b), d)
        ELSE IF BigCmp(a, b) >= 0 THEN Rat(x.neg, BigSub(a, b), d)
        ELSE Rat(y.neg, BigSub(b, a), d)

RatSub(x, y) == RatAdd(x, RatNeg(y))

RatMul(x, y) == Rat(x.neg # y.neg, BigMul(x.n, y.n), BigMul(x.d, y.d))

(* x / y for y # 0; the callers raise ZeroDivisionError for y = 0. *)
RatDiv(x, y) == Rat(x.neg # y.neg, BigMul(x.n, y.d), BigMul(x.d, y.n))

(* -1, 0, 1 as x < y, x = y, x > y. *)
RatCmp(x, y) ==
    LET z == RatSub(x, y)
    IN  IF RatIsZero(z) THEN 0 ELSE IF z.neg THEN -1 ELSE 1

RatEq(x, y) == RatCmp(x, y) = 0

RatLT(x, y) == RatCmp(x, y) < 0

RatLE(x, y) == RatCmp(x, y) <= 0

(* Python's sum() over a sequence of numbers, left to right from 0. *)
RECURSIVE RatSumFrom(_, _)
RatSumFrom(acc, s) ==
    IF s = <<>> THEN acc ELSE RatSumFrom(RatAdd(acc, Head(s)), Tail(s))

RatSum(s) == RatSumFrom(RatZero, s)

----------------------------------------------------------------------------
(* atomic_weight_from_weight_percent.py                                    *)

Min(a, b) == IF a <= b THEN a ELSE b

(* zip(ws, ms) followed by w / m: Python's zip stops at the shorter one. *)
Quotients(ws, ms) ==
    [i \in 1..Min(Len(ws), Len(ms)) |-> RatDiv(ws[i], ms[i])]

Raise(kind, msg) == [kind |-> kind, msg |-> msg, value |-> RatZero]

Return(v) == [kind |-> "return", msg |-> "", value |-> v]

ShapeMismatch(ms, ws) == Len(ms) # Len(ws)

InvalidMass(ms) == \E i \in 1..Len(ms) : RatLE(ms[i], RatZero)

InvalidWeight(ws) == \E i \in 1..Len(ws) : RatLT(ws[i], RatZero)

(* Mutant: the zero-total check is left out. *)
DegenerateTotal_never(total) == FALSE

DegenerateTotal(total) == RatIsZero(total)

(* Mutant: the masses are checked before the lengths. *)
FirstViolation_massFirst(ms, ws) ==
    IF InvalidMass(ms) THEN "All masses must be positive."
    ELSE IF ShapeMismatch(ms, ws)
    THEN "masses_u and weight_percents must have the same length."
    ELSE IF InvalidWeight(ws) THEN "All weight entries must be nonnegative."
    ELSE IF DegenerateTotal(RatSum(ws))
    THEN "Sum of weight percents/fractions is zero."
    ELSE ""

(* The precondition checks in the order the code makes them; "" when all  *)
(* pass.  sum() is only evaluated after the first three have passed.      *)
FirstViolation(ms, ws) ==
    IF ShapeMismatch(ms, ws)
    THEN "masses_u and weight_percents must have the same length."
    ELSE IF InvalidMass(ms) THEN "All masses must be positive."
    ELSE IF InvalidWeight(ws) THEN "All weight entries must be nonnegative."
    ELSE IF DegenerateTotal(RatSum(ws))
    THEN "Sum of weight percents/fractions is zero."
    ELSE ""

LooksLikePercent(total) ==
    RatLT(RatAbs(RatSub(total, Q(100, 1))), Q(1, 1))

(* Mutant: the percent branch forgets the total and returns 1 / denom. *)
PercentForm_unitTotal(ms, ws, total) ==
    LET denom == RatSum(Quotients(ws, ms))
    IN  IF RatIsZero(denom)
        THEN Raise("ZeroDivisionError", "Denominator became zero; check inputs.")
        ELSE Return(RatDiv(Q(1, 1), denom))

PercentForm(ms, ws, total) ==
    LET denom == RatSum(Quotients(ws, ms))
    IN  IF RatIsZero(denom)
        THEN Raise("ZeroDivisionError", "Denominator became zero; check inputs.")
        ELSE Return(RatDiv(total, denom))

(* Mutant: the weights are not divided by their total. *)
NormalizedForm_unnormalized(ms, ws, total) ==
    LET denom == RatSum(Quotients(ws, ms))
    IN  IF RatIsZero(denom)
        THEN Raise("ZeroDivisionError", "Denominator became zero; check inputs.")
        ELSE Return(RatDiv(Q(1, 1), denom))

NormalizedForm(ms, ws, total) ==
    IF ws # <<>> /\ RatIsZero(total)
    THEN Raise("ZeroDivisionError", "float division by zero")
    ELSE LET w_frac == [i \in 1..Len(ws) |-> RatDiv(ws[i], total)]
             denom  == RatSum(Quotients(w_frac, ms))
         IN  IF RatIsZero(denom)
             THEN Raise("ZeroDivisionError",
                        "Denominator became zero; check inputs.")
             ELSE Return(RatDiv(Q(1, 1), denom))

atomic_weight_from_weight_percent(ms, ws) ==
    LET bad == FirstViolation(ms, ws)
    IN  IF bad # "" THEN Raise("ValueError", bad)
        ELSE LET total == RatSum(ws)
             IN  IF LooksLikePercent(total) THEN PercentForm(ms, ws, total)
                 ELSE NormalizedForm(ms, ws, total)

(* The two calls the module makes when it is loaded. *)
ExampleMasses ==
    << Dec(238, 496, 0, 0), Dec(239, 522, 0, 0), Dec(240, 538, 0, 0),
       Dec(241, 568, 0, 0), Dec(242, 587, 0, 0) >>

ExamplePercents == << Q(15, 1), Q(35, 1), Q(15, 1), Q(20, 1), Q(15, 1) >>

ExampleFractions ==
    << Q(15, 100), Q(35, 100), Q(15, 100), Q(20, 100), Q(15, 100) >>

----------------------------------------------------------------------------
(* Specification of the weight-percent calculator: any caller's inputs, or *)
(* one of the module's own two calls, then the call.                       *)

MaxLen == 3

SeqsUpTo(S, n) == UNION {[1..k -> S] : k \in 0..n}

MassValues == {Q(-1, 1), Q(0, 1), Q(2, 1), Q(5, 2)}

WeightValues == {Q(-1, 1), Q(0, 1), Q(1, 2), Q(49, 1), Q(50, 1)}

NoResult == [kind |-> "none", msg |-> "", value |-> RatZero]

InitWP ==
    /\ pc = "start"
    /\ csvFile = <<>>
    /\ symbolArg = <<>>
    /\ dbArg = <<>>
    /\ result = NoResult
    /\ \/ /\ masses_u \in SeqsUpTo(MassValues, MaxLen)
          /\ weight_percents \in SeqsUpTo(WeightValues, MaxLen)
       \/ /\ masses_u = ExampleMasses
          /\ weight_percents \in {ExamplePercents, ExampleFractions}

CallWeightPercent ==
    /\ pc = "start"
    /\ result' = atomic_weight_from_weight_percent(masses_u, weight_percents)
    /\ pc' = "done"
    /\ UNCHANGED <<csvFile, symbolArg, dbArg, masses_u, weight_percents>>

NextWP == CallWeightPercent

SpecWP == InitWP /\ [][NextWP]_vars

----------------------------------------------------------------------------
(* Python str methods on sequences of characters.                          *)

LowerLetters ==
    << "a", "b", "c", "d", "e", "f", "g", "h", "i", "j", "k", "l", "m",
       "n", "o", "p", "q", "r", "s", "t", "u", "v", "w", "x", "y", "z" >>

UpperLetters ==
    << "A", "B", "C", "D", "E", "F", "G", "H", "I", "J", "K", "L", "M",
       "N", "O", "P", "Q", "R", "S", "T", "U", "V", "W", "X", "Y", "Z" >>

Whitespace == {" ", "\t", "\n", "\r"}

Digits == <<"0", "1", "2", "3", "4", "5", "6", "7", "8", "9">>

IndexIn(c, letters) == CHOOSE i \in 1..Len(letters) : letters[i] = c

IsIn(c, letters) == \E i \in 1..Len(letters) : letters[i] = c

lower_char(c) ==
    IF IsIn(c, UpperLetters) THEN LowerLetters[IndexIn(c, UpperLetters)] ELSE c

upper_char(c) ==
    IF IsIn(c, LowerLetters) THEN UpperLetters[IndexIn(c, LowerLetters)] ELSE c

lower(s) == [i \in 1..Len(s) |-> lower_char(s[i])]

upper(s) == [i \in 1..Len(s) |-> upper_char(s[i])]

RECURSIVE lstrip(_)
lstrip(s) ==
    IF s # <<>> /\ Head(s) \in Whitespace THEN lstrip(Tail(s)) ELSE s

RECURSIVE rstrip(_)
rstrip(s) ==
    IF s # <<>> /\ s[Len(s)] \in Whitespace
    THEN rstrip(SubSeq(s, 1, Len(s) - 1)) ELSE s

strip(s) == rstrip(lstrip(s))

capitalize(s) ==
    IF s = <<>> THEN <<>> ELSE <<upper_char(Head(s))>> \o lower(Tail(s))

(* A csv.DictReader cell: a string, or None for a field the row is short of. *)
None == [none |-> TRUE, s |-> <<>>]

Str(s) == [none |-> FALSE, s |-> s]

(* str(x) of a cell: str(None) is "None". *)
str(cell) == IF cell.none THEN <<"N", "o", "n", "e">> ELSE cell.s

Failed == [ok |-> FALSE, v |-> 0]

(* int(x) for a cell: surrounding whitespace allowed, then decimal digits  *)
(* only.  None raises TypeError, anything else ValueError: both are caught *)
(* by the caller's except Exception.                                       *)
RECURSIVE DigitsValue(_, _)
DigitsValue(acc, s) ==
    IF s = <<>> THEN acc
    ELSE DigitsValue(10 * acc + (IndexIn(Head(s), Digits) - 1), Tail(s))

AllDigits(s) == \A i \in 1..Len(s) : IsIn(s[i], Digits)

int(cell) ==
    LET t == strip(cell.s)
    IN  IF cell.none \/ t = <<>> \/ ~AllDigits(t) THEN Failed
        ELSE [ok |-> TRUE, v |-> DigitsValue(0, t)]

RECURSIVE BigFromDigits(_, _)
BigFromDigits(acc, s) ==
    IF s = <<>> THEN acc
    ELSE BigFromDigits(
             BigAdd(BigMulLimb(acc, 10), BigFromInt(IndexIn(Head(s), Digits) - 1)),
             Tail(s))

RECURSIVE BigPow10(_)
BigPow10(k) == IF k = 0 THEN <<1>> ELSE BigMulLimb(BigPow10(k - 1), 10)

(* float(x) for a cell: surrounding whitespace allowed, then digits with   *)
(* at most one point and at least one digit (signs, exponents, inf and nan *)
(* are outside the alphabet of the model).                                 *)
float(cell) ==
    LET t      == strip(cell.s)
        points == {i \in 1..Len(t) : t[i] = "."}
        p      == IF points = {} THEN Len(t) + 1 ELSE CHOOSE i \in points : TRUE
        whole  == SubSeq(t, 1, p - 1)
        frac   == SubSeq(t, p + 1, Len(t))
    IN  IF \/ cell.none
           \/ Cardinality(points) > 1
           \/ whole \o frac = <<>>
           \/ ~AllDigits(whole \o frac)
        THEN Failed
        ELSE [ok |-> TRUE,
              v  |-> Rat(FALSE, BigFromDigits(<<>>, whole \o frac),
                         BigPow10(Len(frac)))]

(* Largest q in lo..hi with q * d <= n, given lo * d <= n. *)
RECURSIVE FloorSearch(_, _, _, _)
FloorSearch(n, d, lo, hi) ==
    IF lo = hi THEN lo
    ELSE LET mid == (lo + hi + 1) \div 2
         IN  IF BigCmp(BigMul(BigFromInt(mid), d), n) <= 0
             THEN FloorSearch(n, d, mid, hi)
             ELSE FloorSearch(n, d, lo, mid - 1)

(* The number printed by f"{x:.3f}": x rounded to three decimals, ties to  *)
(* even, for |x| < 1000000.                                                *)
Format3f(x) ==
    LET n  == BigMulLimb(x.n, 1000)
        q  == FloorSearch(n, x.d, 0, 999999999)
        r2 == BigMulLimb(BigSub(n, BigMul(BigFromInt(q), x.d)), 2)
        c  == BigCmp(r2, x.d)
        up == c > 0 \/ (c = 0 /\ q % 2 = 1)
    IN  Rat(x.neg, BigFromInt(IF up THEN q + 1 ELSE q), <<1000>>)

----------------------------------------------------------------------------
(* isotopes_db.py                                                          *)

Isotope(element, symbol, A, mass_u, abundance_percent, stable) ==
    [element |-> element, symbol |-> symbol, A |-> A, mass_u |-> mass_u,
     abundance_percent |-> abundance_percent, stable |-> stable]

Sn == <<"S", "n">>

Tin == <<"T", "i", "n">>

(* A table is a function from symbols to sequences of isotopes. *)
EmptyTable == [k \in {} |-> <<>>]

OneKey(k, isotopes) == [x \in {k} |-> isotopes]

(* Mutant: the abundance of Sn-116 is mistyped, 1.454 for 14.54. *)
_SEED_mistyped ==
    OneKey(Sn, <<
        Isotope(Tin, Sn, 112, Dec(111, 9048, 2387, 0), Q(97, 100), TRUE),
        Isotope(Tin, Sn, 114, Dec(113, 9027, 8270, 0), Q(66, 100), TRUE),
        Isotope(Tin, Sn, 115, Dec(114, 9033, 4469, 9000), Q(34, 100), TRUE),
        Isotope(Tin, Sn, 116, Dec(115, 9017, 4280, 0), Q(1454, 1000), TRUE),
        Isotope(Tin, Sn, 117, Dec(116, 9029, 5398, 0), Q(768, 100), TRUE),
        Isotope(Tin, Sn, 118, Dec(117, 9016, 657, 0), Q(2422, 100), TRUE),
        Isotope(Tin, Sn, 119, Dec(118, 9033, 1117, 0), Q(859, 100), TRUE),
        Isotope(Tin, Sn, 120, Dec(119, 9022, 163, 0), Q(3258, 100), TRUE),
        Isotope(Tin, Sn, 122, Dec(121, 9034, 4380, 0), Q(463, 100), TRUE),
        Isotope(Tin, Sn, 124, Dec(123, 9052, 7660, 0), Q(579, 100), TRUE) >>)

_SEED ==
    OneKey(Sn, <<
        Isotope(Tin, Sn, 112, Dec(111, 9048, 2387, 0), Q(97, 100), TRUE),
        Isotope(Tin, Sn, 114, Dec(113, 9027, 8270, 0), Q(66, 100), TRUE),
        Isotope(Tin, Sn, 115, Dec(114, 9033, 4469, 9000), Q(34, 100), TRUE),
        Isotope(Tin, Sn, 116, Dec(115, 9017, 4280, 0), Q(1454, 100), TRUE),
        Isotope(Tin, Sn, 117, Dec(116, 9029, 5398, 0), Q(768, 100), TRUE),
        Isotope(Tin, Sn, 118, Dec(117, 9016, 657, 0), Q(2422, 100), TRUE),
        Isotope(Tin, Sn, 119, Dec(118, 9033, 1117, 0), Q(859, 100), TRUE),
        Isotope(Tin, Sn, 120, Dec(119, 9022, 163, 0), Q(3258, 100), TRUE),
        Isotope(Tin, Sn, 122, Dec(121, 9034, 4380, 0), Q(463, 100), TRUE),
        Isotope(Tin, Sn, 124, Dec(123, 9052, 7660, 0), Q(579, 100), TRUE) >>)

(* A file on disk: whether it exists, whether its header has a "stable"    *)
(* column, and the rows csv.DictReader yields.                             *)
NoFile == [exists |-> FALSE, stable_column |-> FALSE, rows |-> <<>>]

CsvFile(stable_column, rows) ==
    [exists |-> TRUE, stable_column |-> stable_column, rows |-> rows]

Row(element, symbol, A, mass_u, abundance_percent, stable) ==
    [element |-> element, symbol |-> symbol, A |-> A, mass_u |-> mass_u,
     abundance_percent |-> abundance_percent, stable |-> stable]

TrueMarkers ==
    { <<"t", "r", "u", "e">>, <<"1">>, <<"y", "e", "s">>, <<"y">> }

(* Mutant: row.get("stable") or "True", which also defaults an empty or  *)
(* missing field.                                                         *)
StableField_orDefault(row, stable_column) ==
    IF stable_column /\ ~row.stable.none /\ row.stable.s # <<>>
    THEN row.stable ELSE Str(<<"T", "r", "u", "e">>)

(* row.get("stable", "True"): the default serves a file without the column. *)
StableField(row, stable_column) ==
    IF stable_column THEN row.stable ELSE Str(<<"T", "r", "u", "e">>)

MarkedStable(row, stable_column) ==
    lower(strip(str(StableField(row, stable_column)))) \in TrueMarkers

(* The try block: [ok, v], v the Isotope; a None element or symbol has no  *)
(* strip() and fails like a bad number.                                    *)
ParseRow(row) ==
    LET A    == int(row.A)
        mass == float(row.mass_u)
        ab   == float(row.abundance_percent)
    IN  IF row.element.none \/ row.symbol.none \/ ~A.ok \/ ~mass.ok \/ ~ab.ok
        THEN Failed
        ELSE [ok |-> TRUE,
              v  |-> Isotope(strip(row.element.s), strip(row.symbol.s),
                             A.v, mass.v, ab.v, TRUE)]

(* db.setdefault(iso.symbol, []).append(iso) *)
AppendTo(db, iso) ==
    IF iso.symbol \in DOMAIN db
    THEN [db EXCEPT ![iso.symbol] = Append(@, iso)]
    ELSE [k \in DOMAIN db \cup {iso.symbol} |->
             IF k = iso.symbol THEN <<iso>> ELSE db[k]]

(* sorted(list, key=A): a stable insertion sort. *)
RECURSIVE InsertByA(_, _)
InsertByA(sorted, iso) ==
    IF sorted = <<>> THEN <<iso>>
    ELSE IF sorted[Len(sorted)].A <= iso.A THEN Append(sorted, iso)
    ELSE Append(InsertByA(SubSeq(sorted, 1, Len(sorted) - 1), iso),
                sorted[Len(sorted)])

RECURSIVE SortedByA(_)
SortedByA(isotopes) ==
    IF isotopes = <<>> THEN <<>>
    ELSE InsertByA(SortedByA(SubSeq(isotopes, 1, Len(isotopes) - 1)),
                   isotopes[Len(isotopes)])

Loaded(db) == [kind |-> "return", msg |-> "", db |-> db]

BadRow == [kind |-> "ValueError", msg |-> "Bad row in CSV", db |-> EmptyTable]

(* The reader loop over the rows that are left, db the table so far. *)
RECURSIVE ReadRows(_, _, _)
ReadRows(rows, stable_column, db) ==
    IF rows = <<>> THEN Loaded([k \in DOMAIN db |-> SortedByA(db[k])])
    ELSE IF ~MarkedStable(Head(rows), stable_column)
    THEN ReadRows(Tail(rows), stable_column, db)
    ELSE LET iso == ParseRow(Head(rows))
         IN  IF ~iso.ok THEN BadRow
             ELSE ReadRows(Tail(rows), stable_column, AppendTo(db, iso.v))

load_csv(file) ==
    IF ~file.exists THEN Loaded(EmptyTable)
    ELSE ReadRows(file.rows, file.stable_column, EmptyTable)

get_database(file) ==
    LET db == load_csv(file)
    IN  IF db.kind # "return" THEN db
        ELSE IF DOMAIN db.db # {} THEN db
        ELSE Loaded(_SEED)

(* Mutant: only the first normalisation line, without the 1- and 2-letter *)
(* fix-up that follows it.                                                *)
CanonicalSymbol_capitalizeOnly(symbol) ==
    IF Len(symbol) <= 2 THEN capitalize(strip(symbol)) ELSE strip(symbol)

(* Lines 81-86: the length tested on line 81 is that of the raw input. *)
CanonicalSymbol(symbol) ==
    LET s == IF Len(symbol) <= 2 THEN capitalize(strip(symbol))
             ELSE strip(symbol)
    IN  IF Len(s) = 1 THEN upper(s)
        ELSE IF Len(s) = 2 THEN <<upper_char(s[1]), lower_char(s[2])>>
        ELSE s

(* The optional db argument: <<>> is None, <<t>> the table t.  "db or     *)
(* get_database()" takes the default file for None and for an empty dict. *)
NoTable == <<>>

Table(t) == <<t>>

EffectiveTable(db, file) ==
    IF db # NoTable /\ DOMAIN db[1] # {} THEN Loaded(db[1])
    ELSE get_database(file)

AwRaise(kind, msg, symbol, v) ==
    [kind |-> kind, msg |-> msg, symbol |-> symbol, value |-> v]

AwReturn(symbol, v) ==
    [kind |-> "return", msg |-> "", symbol |-> symbol, value |-> v]

Abundances(isotopes) ==
    [i \in 1..Len(isotopes) |-> isotopes[i].abundance_percent]

AbundanceInconsistent(total_abund) ==
    RatCmp(RatAbs(RatSub(total_abund, Q(100, 1))), Q(1, 2)) > 0

(* Mutant: the abundances are renormalised by their sum. *)
WeightedMass_renormalized(isotopes) ==
    RatSum([i \in 1..Len(isotopes) |->
        RatMul(RatDiv(isotopes[i].abundance_percent,
                      RatSum(Abundances(isotopes))),
               isotopes[i].mass_u)])

WeightedMass(isotopes) ==
    RatSum([i \in 1..Len(isotopes) |->
        RatMul(RatDiv(isotopes[i].abundance_percent, Q(100, 1)),
               isotopes[i].mass_u)])

(* Lines 88-97, for the canonical symbol and the table in effect.  The    *)
(* symbol field of a returned value records the key that was looked up;   *)
(* the Python caller receives the number alone.                           *)
LookUp(symbol, db) ==
    IF symbol \notin DOMAIN db
    THEN AwRaise("KeyError", "No stable isotope data for element symbol",
                 symbol, RatZero)
    ELSE LET isotopes    == db[symbol]
             total_abund == RatSum(Abundances(isotopes))
         IN  IF AbundanceInconsistent(total_abund)
             THEN AwRaise("ValueError", "Abundances sum, not ~100%",
                          symbol, Format3f(total_abund))
             ELSE AwReturn(symbol, WeightedMass(isotopes))

atomic_weight(symbol, db, file) ==
    LET canonical == CanonicalSymbol(symbol)
        table     == EffectiveTable(db, file)
    IN  IF table.kind # "return"
        THEN AwRaise(table.kind, table.msg, canonical, RatZero)
        ELSE LookUp(canonical, table.db)

----------------------------------------------------------------------------
(* Specifications of atomic_weight.  A caller holds a symbol; the file     *)
(* isotopes.csv of the working directory is absent or holds rows.  The     *)
(* caller obtains a table from get_database (atomic_weight.py, main),      *)
(* supplies one of its own, or omits the argument; then it calls           *)
(* atomic_weight.  SpecAW varies the tables, SpecSym the spellings.        *)

MaxIsotopes == 2

MaxSymLen == 4

O == <<"O">>

Oxygen == <<"O", "x", "y", "g", "e", "n">>

Cell(text) == Str(text)

FileOxygen ==
    CsvFile(TRUE, <<
        Row(Cell(Oxygen), Cell(O), Cell(<<"1", "8">>), Cell(<<"1", "8">>),
            Cell(<<"0", ".", "5">>), Cell(<<"y", "e", "s">>)),
        Row(Cell(Oxygen), Cell(O), Cell(<<"1", "6">>), Cell(<<"1", "6">>),
            Cell(<<"9", "9", ".", "5">>), Cell(<<"T", "r", "u", "e">>)),
        Row(Cell(Tin), Cell(Sn), Cell(<<"1", "2", "0">>), Cell(<<"1", "2", "0">>),
            Cell(<<"1", "0", "0">>), Cell(<<"n", "o">>)) >>)

FileTin90 ==
    CsvFile(TRUE, <<
        Row(Cell(Tin), Cell(Sn), Cell(<<"1", "1", "8">>), Cell(<<"1", "1", "8">>),
            Cell(<<"4", "0">>), Cell(<<"T", "r", "u", "e">>)),
        Row(Cell(Tin), Cell(Sn), Cell(<<"1", "2", "0">>), Cell(<<"1", "2", "0">>),
            Cell(<<"5", "0">>), Cell(<<"T", "r", "u", "e">>)) >>)

IsotopeChoices ==
    { Isotope(Tin, Sn, m[1], m[2], a, TRUE) :
        m \in {<<10, Q(10, 1)>>, <<13, Q(25, 2)>>},
        a \in {Q(0, 1), Q(40, 1), Q(99, 2), Q(50, 1), Q(101, 2)} }

OxygenIsotopes ==
    << Isotope(Oxygen, O, 16, Q(16, 1), Q(199, 2), TRUE),
       Isotope(Oxygen, O, 18, Q(18, 1), Q(1, 2), TRUE) >>

WithOxygen(isotopes) ==
    [k \in {Sn, O} |-> IF k = Sn THEN isotopes ELSE OxygenIsotopes]

(* Abundances with four decimals, summing to 90.0006. *)
FineTable ==
    OneKey(Sn, << Isotope(Tin, Sn, 10, Q(10, 1), Q(400006, 10000), TRUE),
                  Isotope(Tin, Sn, 13, Q(25, 2), Q(50, 1), TRUE) >>)

(* A key that is not in canonical form. *)
LowercaseKeyTable ==
    OneKey(<<"s", "n">>, <<Isotope(Tin, <<"s", "n">>, 10, Q(10, 1), Q(100, 1), TRUE)>>)

GenericTables ==
    {OneKey(Sn, l) : l \in SeqsUpTo(IsotopeChoices, MaxIsotopes)}
    \cup {WithOxygen(l) : l \in SeqsUpTo(IsotopeChoices, MaxIsotopes)}
    \cup {EmptyTable, _SEED, FineTable, LowercaseKeyTable}

SymbolTables ==
    { EmptyTable, _SEED, LowercaseKeyTable,
      OneKey(<<"S">>, <<Isotope(<<"S">>, <<"S">>, 32, Q(32, 1), Q(100, 1), TRUE)>>),
      WithOxygen(<<Isotope(Tin, Sn, 10, Q(10, 1), Q(90, 1), TRUE)>>) }

SymbolChars == {"s", "S", "n", "N", " "}

NoAwResult == AwRaise("none", "", <<>>, RatZero)

InitCaller(symbols, files) ==
    /\ pc = "start"
    /\ csvFile \in files
    /\ symbolArg \in symbols
    /\ dbArg = NoTable
    /\ masses_u = <<>>
    /\ weight_percents = <<>>
    /\ result = NoAwResult

(* atomic_weight.py, main: db = get_database(args.csv).  An exception of  *)
(* get_database ends the program before atomic_weight is called.          *)
CallerGetDatabase ==
    /\ pc = "start"
    /\ LET db == get_database(csvFile)
       IN  IF db.kind = "return"
           THEN /\ dbArg' = Table(db.db)
                /\ pc' = "ready"
                /\ UNCHANGED result
           ELSE /\ result' = AwRaise(db.kind, db.msg, <<>>, RatZero)
                /\ pc' = "failed"
                /\ UNCHANGED dbArg
    /\ UNCHANGED <<csvFile, symbolArg, masses_u, weight_percents>>

CallerSupplyTable(tables) ==
    /\ pc = "start"
    /\ \E t \in tables : dbArg' = Table(t)
    /\ pc' = "ready"
    /\ UNCHANGED <<csvFile, symbolArg, masses_u, weight_percents, result>>

CallerOmitTable ==
    /\ pc = "start"
    /\ dbArg' = NoTable
    /\ pc' = "ready"
    /\ UNCHANGED <<csvFile, symbolArg, masses_u, weight_percents, result>>

AtomicWeight ==
    /\ pc = "ready"
    /\ result' = atomic_weight(symbolArg, dbArg, csvFile)
    /\ pc' = "done"
    /\ UNCHANGED <<csvFile, symbolArg, dbArg, masses_u, weight_percents>>

InitAW ==
    InitCaller({Sn, <<" ", "s", "N", " ">>, <<"o">>, <<"X", "x">>},
               {NoFile, FileOxygen, FileTin90})

NextAW ==
    \/ CallerGetDatabase
    \/ CallerSupplyTable(GenericTables)
    \/ CallerOmitTable
    \/ AtomicWeight

SpecAW == InitAW /\ [][NextAW]_vars

InitSym == InitCaller(SeqsUpTo(SymbolChars, MaxSymLen), {NoFile, FileOxygen})

NextSym ==
    \/ CallerGetDatabase
    \/ CallerSupplyTable(SymbolTables)
    \/ CallerOmitTable
    \/ AtomicWeight

SpecSym == InitSym /\ [][NextSym]_vars

----------------------------------------------------------------------------
(* Specification of the loader: a file, then load_csv or get_database.     *)

MaxRows == 2

True == <<"T", "r", "u", "e">>

Markers ==
    { Str(True), Str(<<" ", "Y", "E", "S", " ">>), Str(<<"1">>), Str(<<"Y">>),
      Str(<<>>), Str(<<"F", "a", "l", "s", "e">>), Str(<<"0">>), None }

RowChoices(markers) ==
    { Row(Str(Tin), Str(k[1]), Str(k[2]), Str(<<"2", ".", "5">>),
          Str(<<"5", "0">>), m) :
        k \in { <<Sn, <<"2">>>>, <<Sn, <<"1">>>>,
                <<<<" ", "O", " ">>, <<"1">>>>, <<Sn, <<"x">>>> },
        m \in markers }

CsvFiles ==
    {NoFile}
    \cup {CsvFile(TRUE, rows) : rows \in SeqsUpTo(RowChoices(Markers), MaxRows)}
    \cup {CsvFile(FALSE, rows) : rows \in SeqsUpTo(RowChoices({None}), MaxRows)}

NoCsvResult == [kind |-> "none", msg |-> "", db |-> EmptyTable]

InitCSV ==
    /\ pc = "start"
    /\ csvFile \in CsvFiles
    /\ symbolArg = <<>>
    /\ dbArg = NoTable
    /\ masses_u = <<>>
    /\ weight_percents = <<>>
    /\ result = NoCsvResult

LoadCsv ==
    /\ pc = "start"
    /\ result' = load_csv(csvFile)
    /\ pc' = "loaded"
    /\ UNCHANGED <<csvFile, symbolArg, dbArg, masses_u, weight_percents>>

GetDatabase ==
    /\ pc = "start"
    /\ result' = get_database(csvFile)
    /\ pc' = "got"
    /\ UNCHANGED <<csvFile, symbolArg, dbArg, masses_u, weight_percents>>

NextCSV == LoadCsv \/ GetDatabase

SpecCSV == InitCSV /\ [][NextCSV]_vars

----------------------------------------------------------------------------
(* Claims about the weight-percent calculator, checked under SpecWP.       *)

(* The four preconditions, as the specification states them. *)
ValidComposition ==
    /\ Len(masses_u) = Len(weight_percents)
    /\ \A i \in 1..Len(masses_u) : RatCmp(masses_u[i], RatZero) = 1
    /\ \A i \in 1..Len(weight_percents) :
           RatCmp(weight_percents[i], RatZero) >= 0
    /\ ~RatEq(RatSum(weight_percents), RatZero)

(* sum(w_i / m_i) over the indices of ms. *)
SumOfRatios(ms, ws) == RatSum([i \in 1..Len(ms) |-> RatDiv(ws[i], ms[i])])

Scaled(ws, k) == [i \in 1..Len(ws) |-> RatMul(k, ws[i])]

PercentDirect(ms, ws) == RatDiv(RatSum(ws), SumOfRatios(ms, ws))

NormaliseThenInvert(ms, ws) ==
    RatDiv(Q(1, 1), SumOfRatios(ms, Scaled(ws, RatDiv(Q(1, 1), RatSum(ws)))))

C6_FirstViolatedPrecondition ==
    LET shape  == Len(masses_u) # Len(weight_percents)
        mass   == \E i \in 1..Len(masses_u) : RatCmp(masses_u[i], RatZero) <= 0
        weight == \E i \in 1..Len(weight_percents) :
                      RatCmp(weight_percents[i], RatZero) < 0
        msgs   == << "masses_u and weight_percents must have the same length.",
                     "All masses must be positive.",
                     "All weight entries must be nonnegative.",
                     "Sum of weight percents/fractions is zero." >>
        raises(k) == result.kind = "ValueError" /\ result.msg = msgs[k]
    IN  pc = "done" =>
        /\ Cardinality({msgs[k] : k \in 1..4}) = 4
        /\ shape => raises(1)
        /\ (~shape /\ mass) => raises(2)
        /\ (~shape /\ ~mass /\ weight) => raises(3)
        /\ (~shape /\ ~mass /\ ~weight
              /\ RatEq(RatSum(weight_percents), RatZero)) => raises(4)
        /\ result.kind = "return" <=> ValidComposition

(* Three masses, one of them non-positive, with two weights: shape         *)
(* mismatch wins.                                                          *)
C6_Witness ==
    /\ pc = "done"
    /\ Len(masses_u) = 3 /\ Len(weight_percents) = 2
    /\ \E i \in 1..Len(masses_u) : RatCmp(masses_u[i], RatZero) <= 0
    /\ result.kind = "ValueError"

AtExampleCall ==
    pc = "done" /\ masses_u = ExampleMasses /\ weight_percents = ExamplePercents

Within(x, centre, tol) == RatLE(RatAbs(RatSub(x, centre)), tol)

(* C8 as stated: the module's first example call returns a value within    *)
(* 0.01 of 240.333, the value of 100 / sum(W_i / m_i).                     *)
C8_Returns240_333 ==
    AtExampleCall =>
        /\ result.kind = "return"
        /\ Within(result.value, Q(240333, 1000), Q(1, 100))
        /\ RatEq(result.value,
                 RatDiv(Q(100, 1), SumOfRatios(ExampleMasses, ExamplePercents)))

(* C8 amended: the module's first example call returns the value of        *)
(* 100 / sum(W_i / m_i), which is within 0.01 of 239.897 (and so is not    *)
(* within 0.01 of 240.333).                                                *)
C8_Returns239_897 ==
    AtExampleCall =>
        /\ result.kind = "return"
        /\ Within(result.value, Q(239897, 1000), Q(1, 100))
        /\ ~Within(result.value, Q(240333, 1000), Q(1, 100))
        /\ RatEq(result.value,
                 RatDiv(Q(100, 1), SumOfRatios(ExampleMasses, ExamplePercents)))

C8_Witness == AtExampleCall /\ result.kind = "return"

(* C10: no call raises ZeroDivisionError; for every input that passes the  *)
(* four checks sum(w_i / m_i) and sum((w_i / total) / m_i) are strictly    *)
(* positive and the value returned is strictly positive.                   *)
C10_NoZeroDivision ==
    pc = "done" =>
        /\ result.kind # "ZeroDivisionError"
        /\ ValidComposition =>
              /\ RatCmp(SumOfRatios(masses_u, weight_percents), RatZero) = 1
              /\ RatCmp(SumOfRatios(masses_u,
                     Scaled(weight_percents,
                            RatDiv(Q(1, 1), RatSum(weight_percents)))),
                     RatZero) = 1
              /\ result.kind = "return"
              /\ RatCmp(result.value, RatZero) = 1

(* A valid input with a zero weight beside a positive one, in the          *)
(* normalised branch.                                                      *)
C10_Witness ==
    /\ pc = "done" /\ ValidComposition /\ result.kind = "return"
    /\ \E i \in 1..Len(weight_percents) : RatIsZero(weight_percents[i])
    /\ ~LooksLikePercent(RatSum(weight_percents))

----------------------------------------------------------------------------
(* Claims about atomic_weight, checked under SpecAW (C4 under SpecSym).    *)

Canonical == CanonicalSymbol(symbolArg)

(* The call has been made with a table argument (possibly the empty one). *)
CalledWithTable == pc = "done" /\ dbArg # NoTable

GivenTable == dbArg[1]

InGivenTable == Canonical \in DOMAIN GivenTable

GivenAbundanceSum == RatSum(Abundances(GivenTable[Canonical]))

WithinTolerance(total) ==
    /\ RatCmp(total, Q(995, 10)) >= 0
    /\ RatCmp(total, Q(1005, 10)) <= 0

IsInconsistencyError ==
    result.kind = "ValueError" /\ result.msg = "Abundances sum, not ~100%"

(* C1: for every table passed, the empty one included, a symbol whose      *)
(* canonical form is not a key of that table makes the call fail with      *)
(* KeyError naming the canonical symbol; no value is returned and no data  *)
(* comes from anywhere but the given table.                                *)
C1_NotFoundInGivenTable ==
    (CalledWithTable /\ ~InGivenTable) =>
        /\ result.kind = "KeyError"
        /\ result.symbol = Canonical

(* C2: for a symbol present in the given table the call fails with the     *)
(* inconsistency error, carrying the symbol and the observed sum (to three *)
(* decimals), exactly when |S - 100| > 0.5 and returns a value exactly     *)
(* when |S - 100| <= 0.5; and that error is only produced for symbols that *)
(* are in the given table.                                                 *)
C2_InconsistencyOnlyInGivenTable ==
    CalledWithTable =>
        /\ InGivenTable =>
              /\ IsInconsistencyError <=> ~WithinTolerance(GivenAbundanceSum)
              /\ result.kind = "return" <=> WithinTolerance(GivenAbundanceSum)
              /\ IsInconsistencyError =>
                    /\ result.symbol = Canonical
                    /\ Within(result.value, GivenAbundanceSum, Q(5, 10000))
        /\ IsInconsistencyError => InGivenTable

(* The part of C2 about symbols that are in the given table. *)
ToleranceOnGivenTable ==
    (CalledWithTable /\ InGivenTable) =>
        /\ IsInconsistencyError <=> ~WithinTolerance(GivenAbundanceSum)
        /\ result.kind = "return" <=> WithinTolerance(GivenAbundanceSum)
        /\ IsInconsistencyError =>
              /\ result.symbol = Canonical
              /\ Within(result.value, GivenAbundanceSum, Q(5, 10000))

(* sum(a_i * m_i) over the isotopes, the division by 100 left to the user. *)
PercentTimesMass(isotopes) ==
    RatSum([i \in 1..Len(isotopes) |->
        RatMul(isotopes[i].abundance_percent, isotopes[i].mass_u)])

(* C3: for a symbol of the given table whose abundances sum to S within    *)
(* 0.5 of 100, the value returned is sum(a_i * m_i) / 100; for S = 100 it  *)
(* is the abundance-weighted mean sum(a_i * m_i) / S, and for S # 100 it   *)
(* is not (no renormalisation).                                            *)
C3_WeightedSum ==
    (CalledWithTable /\ InGivenTable /\ WithinTolerance(GivenAbundanceSum)) =>
        LET isotopes == GivenTable[Canonical]
            dot      == PercentTimesMass(isotopes)
            mean     == RatDiv(dot, GivenAbundanceSum)
        IN  /\ result.kind = "return"
            /\ RatEq(result.value, RatDiv(dot, Q(100, 1)))
            /\ RatEq(GivenAbundanceSum, Q(100, 1)) => RatEq(result.value, mean)
            /\ (~RatEq(GivenAbundanceSum, Q(100, 1)) /\ ~RatIsZero(dot)) =>
                   ~RatEq(result.value, mean)

(* Two isotopes of different mass whose abundances sum to 99.5. *)
C3_Witness ==
    /\ CalledWithTable /\ InGivenTable /\ result.kind = "return"
    /\ Len(GivenTable[Canonical]) = 2
    /\ ~RatEq(GivenTable[Canonical][1].mass_u, GivenTable[Canonical][2].mass_u)
    /\ RatEq(GivenAbundanceSum, Q(995, 10))

IsLetter(c) == IsIn(c, LowerLetters) \/ IsIn(c, UpperLetters)

Trimmed == strip(symbolArg)

OneOrTwoLetters ==
    Len(Trimmed) \in {1, 2} /\ \A i \in 1..Len(Trimmed) : IsLetter(Trimmed[i])

ExpectedKey ==
    IF Len(Trimmed) = 1 THEN <<upper_char(Trimmed[1])>>
    ELSE <<upper_char(Trimmed[1]), lower_char(Trimmed[2])>>

(* C4: for an input that is 1 or 2 letters once trimmed, the key looked up *)
(* is the first letter in upper case followed by the second in lower case, *)
(* and the outcome is that of the call with this canonical spelling.       *)
C4_CaseAndWhitespaceInsensitive ==
    (pc = "done" /\ OneOrTwoLetters) =>
        /\ result.symbol = ExpectedKey
        /\ result = atomic_weight(ExpectedKey, dbArg, csvFile)

(* " sN ": four characters as typed, two letters once trimmed. *)
C4_Witness ==
    /\ pc = "done" /\ OneOrTwoLetters
    /\ symbolArg = <<" ", "s", "N", " ">> /\ ExpectedKey = Sn
    /\ result.kind = "return"

FromSeedFallback ==
    /\ pc = "done" /\ ~csvFile.exists
    /\ dbArg = Table(get_database(csvFile).db)
    /\ Canonical = Sn

(* C7: with no CSV file, the table get_database returns is the ten-isotope *)
(* Tin seed; its abundances sum to 100 within 0.5, so atomic_weight passes *)
(* validation, and the value returned is within 0.01 of 118.71.            *)
C7_TinSeed ==
    FromSeedFallback =>
        /\ DOMAIN GivenTable = {Sn} /\ Len(GivenTable[Sn]) = 10
        /\ WithinTolerance(GivenAbundanceSum)
        /\ result.kind = "return"
        /\ Within(result.value, Q(11871, 100), Q(1, 100))

C7_Witness == FromSeedFallback /\ result.kind = "return" /\ symbolArg # Sn

----------------------------------------------------------------------------
(* Claims about load_csv, checked under SpecCSV.                           *)

(* A stability marker equivalent to true: a field that is there and reads *)
(* true, 1, yes or y once trimmed and lower-cased.                        *)
ExplicitlyStable(row) ==
    /\ csvFile.stable_column /\ ~row.stable.none
    /\ lower(strip(row.stable.s)) \in
           {<<"t", "r", "u", "e">>, <<"1">>, <<"y", "e", "s">>, <<"y">>}

StableOrNoColumn(row) == ~csvFile.stable_column \/ ExplicitlyStable(row)

LoadedTable == pc = "loaded" /\ result.kind = "return"

IsotopesWith(symbol, A) ==
    IF symbol \notin DOMAIN result.db THEN {}
    ELSE {i \in 1..Len(result.db[symbol]) : result.db[symbol][i].A = A}

RowsWith(symbol, A, accepted(_)) ==
    {j \in 1..Len(csvFile.rows) :
        LET row == csvFile.rows[j]
        IN  /\ accepted(row)
            /\ ~row.symbol.none /\ strip(row.symbol.s) = symbol
            /\ int(row.A).ok /\ int(row.A).v = A}

KeysAndNumbers ==
    (DOMAIN result.db \cup {Sn, O}) \X
    ({1, 2} \cup UNION {{result.db[k][i].A : i \in 1..Len(result.db[k])} :
                           k \in DOMAIN result.db})

====
